---- MODULE Spec2Model ----
(***************************************************************************)
(* SharpCoreDB binary row codec.                                           *)
(*                                                                         *)
(* The encoder is BinaryRowSerializer of                                   *)
(* docs/scripts/visualize_serialization.py.  The decoder is the family of  *)
(* Read methods of DatabaseExtensions.cs: the bounds guards are the ones   *)
(* that fix_bounds_checking.py / fix_bounds_v3.py insert, the decode loop  *)
(* around them follows the wire format of the specification.               *)
(***************************************************************************)
EXTENDS Integers, Sequences, FiniteSets, TLC

VARIABLES
    row,          \* the row handed to serialize: a sequence of [name, value]
    pc,           \* "serialize", "store", "count", "name", "marker", "value", "done"
    buffer,       \* bytes returned by serialize
    steps,        \* the SerializationStep list returned by serialize
    encErr,       \* serialize raised (struct.error)
    data,         \* the slice handed to decode
    tamper,       \* what the storage layer did to the buffer
    offset,       \* the decode cursor (ref int offset)
    columnCount,  \* the ColumnCount field as read (int32 bit pattern)
    result,       \* the row under construction
    name,         \* the column name read and not yet stored
    marker,       \* the last marker byte read, -1 before the first
    outcome,      \* "none", "Success", "Failure"
    kind,         \* the failure kind, "" when there is none
    last,         \* the last read: [op, start, lengthAt, length]
    copied,       \* every payload copy reached so far: [at, length]
    lines,        \* DatabaseExtensions.cs on disk, from line `base` on: a list of lines
    base,         \* the lines of the file above `lines`; no script matches them
    before,       \* `lines` before the last script ran
    ran,          \* the last patch script run, "" before the first
    runs          \* the number of script runs so far

\* the state of the codec and the state of the patched source file
codec == <<row, pc, buffer, steps, encErr, data, tamper, offset, columnCount,
           result, name, marker, outcome, kind, last, copied>>
patch == <<lines, base, before, ran, runs>>

vars == <<row, pc, buffer, steps, encErr, data, tamper, offset, columnCount,
          result, name, marker, outcome, kind, last, copied,
          lines, base, before, ran, runs>>

(***************************************************************************)
(* Bounds of the model.                                                    *)
(***************************************************************************)
\* columns of a generated row
MaxCols == 2
\* script runs on one file
MaxRuns == 2

(***************************************************************************)
(* BinaryTypeMarker.                                                       *)
(***************************************************************************)
Null == 0
Int32 == 1
Int64 == 2
Double == 3
Boolean == 4
DateTime == 5
String == 6
\* Bytes given a value outside the table
Bytes_Nine == String + 3

Bytes == 7
Decimal == 8

MaxInt32 == 2147483647
MinInt32 == -2147483647 - 1

(***************************************************************************)
(* Sequences helpers.                                                      *)
(***************************************************************************)
RECURSIVE Flatten(_)
Flatten(ss) == IF ss = <<>> THEN <<>> ELSE Head(ss) \o Flatten(Tail(ss))

Zeros(n) == [i \in 1..n |-> 0]

(***************************************************************************)
(* Python values.  An int is unbounded: sign and little-endian magnitude   *)
(* bytes without leading zero bytes (zero is the empty magnitude).  A      *)
(* float is its IEEE-754 fields; frac is the 52-bit fraction as six bytes  *)
(* and a top nibble, little-endian.  A str is its code points.             *)
(***************************************************************************)
PyNone == [t |-> "NoneType"]
PyBool(b) == [t |-> "bool", b |-> b]
PyInt(neg, mag) == [t |-> "int", neg |-> neg, mag |-> mag]
PyFloat(sign, exp, frac) == [t |-> "float", sign |-> sign, exp |-> exp, frac |-> frac]
PyStr(s) == [t |-> "str", s |-> s]
PyBytes(bs) == [t |-> "bytes", bs |-> bs]
PyList(items) == [t |-> "list", items |-> items]

\* isinstance(value, int): bool is a subclass of int
IsInstanceInt(v) == v.t \in {"int", "bool"}

\* the int a bool stands for
AsInt(v) ==
    IF v.t = "bool" THEN (IF v.b THEN PyInt(FALSE, <<1>>) ELSE PyInt(FALSE, <<>>))
    ELSE v

\* magnitude comparison, a < b
MagLess(a, b) ==
    IF Len(a) # Len(b) THEN Len(a) < Len(b)
    ELSE IF a = b THEN FALSE
    ELSE LET k == CHOOSE i \in 1..Len(a) :
                     a[i] # b[i] /\ \A j \in (i + 1)..Len(a) : a[j] = b[j]
         IN a[k] < b[k]

\* a <= b on ints
IntLeq(a, b) ==
    IF a = b THEN TRUE
    ELSE IF a.neg /\ ~b.neg THEN TRUE
    ELSE IF ~a.neg /\ b.neg THEN FALSE
    ELSE IF a.neg THEN MagLess(b.mag, a.mag)
    ELSE MagLess(a.mag, b.mag)

\* 2^(8w-1) as a magnitude
HalfRange(w) == [i \in 1..w |-> IF i = w THEN 128 ELSE 0]
\* 2^(8w-1) - 1 as a magnitude
HalfRangeLess1(w) == [i \in 1..w |-> IF i = w THEN 127 ELSE 255]

\* two's complement negation of a w-byte little-endian pattern
TwosNegate(bs) ==
    IF \A i \in 1..Len(bs) : bs[i] = 0 THEN bs
    ELSE LET k == CHOOSE i \in 1..Len(bs) :
                     bs[i] # 0 /\ \A j \in 1..(i - 1) : bs[j] = 0
         IN [i \in 1..Len(bs) |->
                IF i < k THEN 0 ELSE IF i = k THEN 256 - bs[i] ELSE 255 - bs[i]]

\* drop the zero bytes at the top of a magnitude
RECURSIVE Strip(_)
Strip(m) ==
    IF m = <<>> THEN <<>>
    ELSE IF m[Len(m)] = 0 THEN Strip(SubSeq(m, 1, Len(m) - 1))
    ELSE m

(***************************************************************************)
(* struct.pack                                                             *)
(***************************************************************************)
\* struct.pack('<I', n)
PackUInt32(n) ==
    <<n % 256, (n \div 256) % 256, (n \div 65536) % 256, (n \div 16777216) % 256>>

\* struct.pack('<i', v) and struct.pack('<q', v): w = 4, 8.  ok is FALSE where
\* struct.error is raised (the value does not fit the format).
PackSigned_BigEndian(v, w) ==
    LET lo == PyInt(TRUE, HalfRange(w))
        hi == PyInt(FALSE, HalfRangeLess1(w))
    IN IF ~(IntLeq(lo, v) /\ IntLeq(v, hi)) THEN [ok |-> FALSE, bytes |-> <<>>]
       ELSE LET padded == v.mag \o Zeros(w - Len(v.mag))
                le == IF v.neg THEN TwosNegate(padded) ELSE padded
            IN [ok |-> TRUE, bytes |-> [i \in 1..w |-> le[w + 1 - i]]]

PackSigned(v, w) ==
    LET lo == PyInt(TRUE, HalfRange(w))
        hi == PyInt(FALSE, HalfRangeLess1(w))
    IN IF ~(IntLeq(lo, v) /\ IntLeq(v, hi)) THEN [ok |-> FALSE, bytes |-> <<>>]
       ELSE LET padded == v.mag \o Zeros(w - Len(v.mag))
            IN [ok |-> TRUE,
                bytes |-> IF v.neg THEN TwosNegate(padded) ELSE padded]

\* struct.pack('<d', v)
PackDouble(v) ==
    SubSeq(v.frac, 1, 6)
        \o << (v.exp % 16) * 16 + v.frac[7], v.sign * 128 + (v.exp \div 16) >>

(***************************************************************************)
(* str.encode('utf-8')                                                     *)
(***************************************************************************)
Utf8Char(cp) ==
    IF cp < 128 THEN <<cp>>
    ELSE IF cp < 2048 THEN <<192 + (cp \div 64), 128 + (cp % 64)>>
    ELSE IF cp < 65536
        THEN <<224 + (cp \div 4096), 128 + ((cp \div 64) % 64), 128 + (cp % 64)>>
    ELSE <<240 + (cp \div 262144), 128 + ((cp \div 4096) % 64),
           128 + ((cp \div 64) % 64), 128 + (cp % 64)>>

EncodeUtf8(s) == Flatten([i \in 1..Len(s) |-> Utf8Char(s[i])])

(***************************************************************************)
(* str(value) of a value of no serialized type: a list of small naturals   *)
(* prints as "[1, 2]".                                                     *)
(***************************************************************************)
RECURSIVE Digits(_)
Digits(n) == IF n < 10 THEN <<48 + n>> ELSE Digits(n \div 10) \o <<48 + (n % 10)>>

RECURSIVE JoinItems(_)
JoinItems(items) ==
    IF items = <<>> THEN <<>>
    ELSE IF Len(items) = 1 THEN Digits(items[1])
    ELSE Digits(items[1]) \o <<44, 32>> \o JoinItems(Tail(items))

Str(v) == <<91>> \o JoinItems(v.items) \o <<93>>

(***************************************************************************)
(* BinaryRowSerializer._encode_value                                       *)
(***************************************************************************)
\* -2147483648 < value < 2147483647
InInt32Range_Strict(v) ==
    /\ IntLeq(PyInt(TRUE, HalfRange(4)), v) /\ IntLeq(v, PyInt(FALSE, HalfRangeLess1(4)))
    /\ v # PyInt(TRUE, HalfRange(4)) /\ v # PyInt(FALSE, HalfRangeLess1(4))

InInt32Range(v) ==
    IntLeq(PyInt(TRUE, HalfRange(4)), v) /\ IntLeq(v, PyInt(FALSE, HalfRangeLess1(4)))

EncodeStr(s) ==
    LET encoded == EncodeUtf8(s)
    IN [ok |-> TRUE, marker |-> String, bytes |-> PackUInt32(Len(encoded)) \o encoded]

\* Default: convert to string
Default_Null(value) == [ok |-> TRUE, marker |-> Null, bytes |-> <<>>]

Default(value) == EncodeStr(Str(value))

\* isinstance(value, int) tested before isinstance(value, bool)
encode_value_IntFirst(value) ==
    IF value.t = "NoneType" THEN [ok |-> TRUE, marker |-> Null, bytes |-> <<>>]
    ELSE IF IsInstanceInt(value)
        THEN IF InInt32Range(AsInt(value))
             THEN [ok |-> TRUE, marker |-> Int32, bytes |-> PackSigned(AsInt(value), 4).bytes]
             ELSE LET p == PackSigned(AsInt(value), 8)
                  IN [ok |-> p.ok, marker |-> Int64, bytes |-> p.bytes]
    ELSE IF value.t = "bool"
        THEN [ok |-> TRUE, marker |-> Boolean, bytes |-> <<IF value.b THEN 1 ELSE 0>>]
    ELSE IF value.t = "float"
        THEN [ok |-> TRUE, marker |-> Double, bytes |-> PackDouble(value)]
    ELSE IF value.t = "str" THEN EncodeStr(value.s)
    ELSE IF value.t = "bytes"
        THEN [ok |-> TRUE, marker |-> Bytes,
              bytes |-> PackUInt32(Len(value.bs)) \o value.bs]
    ELSE Default(value)

encode_value(value) ==
    IF value.t = "NoneType" THEN [ok |-> TRUE, marker |-> Null, bytes |-> <<>>]
    ELSE IF value.t = "bool"
        THEN [ok |-> TRUE, marker |-> Boolean, bytes |-> <<IF value.b THEN 1 ELSE 0>>]
    ELSE IF IsInstanceInt(value)
        THEN IF InInt32Range(AsInt(value))
             THEN [ok |-> TRUE, marker |-> Int32, bytes |-> PackSigned(AsInt(value), 4).bytes]
             ELSE LET p == PackSigned(AsInt(value), 8)
                  IN [ok |-> p.ok, marker |-> Int64, bytes |-> p.bytes]
    ELSE IF value.t = "float"
        THEN [ok |-> TRUE, marker |-> Double, bytes |-> PackDouble(value)]
    ELSE IF value.t = "str" THEN EncodeStr(value.s)
    ELSE IF value.t = "bytes"
        THEN [ok |-> TRUE, marker |-> Bytes,
              bytes |-> PackUInt32(Len(value.bs)) \o value.bs]
    ELSE Default(value)

\* BinaryRowSerializer._get_type_name
get_type_name(m) ==
    CASE m = 0 -> "Null" [] m = 1 -> "Int32" [] m = 2 -> "Int64" [] m = 3 -> "Double"
      [] m = 4 -> "Boolean" [] m = 5 -> "DateTime" [] m = 6 -> "String"
      [] m = 7 -> "Bytes" [] m = 8 -> "Decimal" [] OTHER -> "Unknown"

SerializationStep(off, size, value, description) ==
    [offset |-> off, size |-> size, value |-> value, description |-> description]

(***************************************************************************)
(* BinaryRowSerializer.serialize: the loop over row.items(), from column i *)
(* on, with the buffer, the steps and the offset so far.  ok is FALSE      *)
(* where _encode_value raised.                                             *)
(***************************************************************************)
\* struct.pack('<I', len(name_bytes)), name_bytes = name.encode('utf-8')
NameLengthField_Chars(column_name) == PackUInt32(Len(column_name))

NameLengthField(column_name) == PackUInt32(Len(EncodeUtf8(column_name)))

RECURSIVE SerializeColumns(_, _, _, _, _)
SerializeColumns(r, i, buf, stps, off) ==
    IF i > Len(r) THEN [ok |-> TRUE, buffer |-> buf, steps |-> stps]
    ELSE LET name_bytes == EncodeUtf8(r[i].name)
             ev == encode_value(r[i].value)
             off1 == off + 4
             off2 == off1 + Len(name_bytes)
             off3 == off2 + 1
         IN IF ~ev.ok THEN [ok |-> FALSE, buffer |-> <<>>, steps |-> <<>>]
            ELSE SerializeColumns(r, i + 1,
                    buf \o NameLengthField(r[i].name) \o name_bytes
                        \o <<ev.marker>> \o ev.bytes,
                    stps \o << SerializationStep(off, 4, Len(name_bytes), "NameLength"),
                               SerializationStep(off1, Len(name_bytes), r[i].name, "ColumnName"),
                               SerializationStep(off2, 1, get_type_name(ev.marker), "TypeMarker"),
                               SerializationStep(off3, Len(ev.bytes), r[i].value, "Value") >>,
                    off3 + Len(ev.bytes))

serialize(r) ==
    LET column_count == Len(r)
    IN SerializeColumns(r, 1, PackUInt32(column_count),
                        << SerializationStep(0, 4, column_count, "ColumnCount") >>, 4)

(***************************************************************************)
(* 32-bit arithmetic of the decoder: offset, length and data.Length are    *)
(* C# ints and + wraps (unchecked context).                                *)
(***************************************************************************)
WrapAdd32(a, b) ==
    IF a > 0 /\ b > 0 /\ a > MaxInt32 - b
        THEN (a - MaxInt32 - 1) + (b - MaxInt32 - 1)
    ELSE IF a < 0 /\ b < 0 /\ a < MinInt32 - b
        THEN (a + MaxInt32 + 1) + (b + MaxInt32 + 1)
    ELSE a + b

\* the little-endian int32 at 0-based index off
LittleEndianInt32(d, off) ==
    d[off + 1] + 256 * d[off + 2] + 65536 * d[off + 3]
        + 16777216 * (IF d[off + 4] >= 128 THEN d[off + 4] - 256 ELSE d[off + 4])

\* a w-byte two's complement pattern as an int
FromTwos(bs) ==
    IF bs[Len(bs)] >= 128 THEN PyInt(TRUE, Strip(TwosNegate(bs)))
    ELSE PyInt(FALSE, Strip(bs))

\* the IEEE-754 fields of an 8-byte little-endian pattern
UnpackDouble(bs) ==
    PyFloat(bs[8] \div 128, (bs[8] % 128) * 16 + (bs[7] \div 16),
            SubSeq(bs, 1, 6) \o <<bs[7] % 16>>)

\* Encoding.UTF8.GetString: an invalid sequence decodes to U+FFFD
DecodeUtf8(bs) ==
    LET decode[rest \in Seq(0..255)] ==
            IF rest = <<>> THEN <<>>
            ELSE LET b == rest[1]
                     n == IF b < 128 THEN 1 ELSE IF b \in 192..223 THEN 2
                          ELSE IF b \in 224..239 THEN 3
                          ELSE IF b \in 240..247 THEN 4 ELSE 0
                     valid == /\ n > 0 /\ Len(rest) >= n
                              /\ \A i \in 2..n : rest[i] \in 128..191
                     cp == IF n = 1 THEN b
                           ELSE IF n = 2 THEN (b - 192) * 64 + (rest[2] - 128)
                           ELSE IF n = 3
                               THEN (b - 224) * 4096 + (rest[2] - 128) * 64
                                        + (rest[3] - 128)
                           ELSE (b - 240) * 262144 + (rest[2] - 128) * 4096
                                    + (rest[3] - 128) * 64 + (rest[4] - 128)
                 IN IF valid THEN <<cp>> \o decode[SubSeq(rest, n + 1, Len(rest))]
                    ELSE <<65533>> \o decode[Tail(rest)]
    IN decode[bs]

(***************************************************************************)
(* The Read methods.  Each returns [ok, value, offset, kind, copy]: offset *)
(* is the cursor the method leaves, kind the failure, copy the payload     *)
(* copies it reached.  ReadOnlySpan bounds-checks every slice itself: a    *)
(* slice outside the span that a guard let through throws                  *)
(* ArgumentOutOfRangeException ("OutOfRange") before any byte is touched.  *)
(***************************************************************************)
InSpan(d, off, n) == off >= 0 /\ n >= 0 /\ off <= Len(d) /\ n <= Len(d) - off

Slice(d, off, n) == SubSeq(d, off + 1, off + n)

ReadFailed(off, k, copy) ==
    [ok |-> FALSE, value |-> <<>>, offset |-> off, kind |-> k, copy |-> copy]

ReadDone(v, off, copy) ==
    [ok |-> TRUE, value |-> v, offset |-> off, kind |-> "", copy |-> copy]

\* if (offset + N > data.Length) throw ... "truncated at offset"
FixedGuard(off, bytes_needed, dataLength) == WrapAdd32(off, bytes_needed) > dataLength

\* the size left out of the guard: offset > data.Length
Int32Guard_NoSize(off, dataLength) == off > dataLength

Int32Guard(off, dataLength) == FixedGuard(off, 4, dataLength)

\* ReadInt64 guarded for the 4 bytes of ReadInt32
Int64Guard_Four(off, dataLength) == FixedGuard(off, 4, dataLength)

Int64Guard(off, dataLength) == FixedGuard(off, 8, dataLength)
BooleanGuard(off, dataLength) == FixedGuard(off, 1, dataLength)
GuidGuard(off, dataLength) == FixedGuard(off, 16, dataLength)
DoubleGuard(off, dataLength) == FixedGuard(off, 8, dataLength)
MarkerGuard(off, dataLength) == FixedGuard(off, 1, dataLength)

\* if (length < 0 || offset + length > data.Length) throw ... "truncated at offset"
LengthGuard(length, off, dataLength) ==
    length < 0 \/ WrapAdd32(off, length) > dataLength

StringGuard(length, off, dataLength) == LengthGuard(length, off, dataLength)
BytesGuard(length, off, dataLength) == LengthGuard(length, off, dataLength)

\* a fixed-size read that returns its bytes and leaves the cursor on them
ReadFixed_NoAdvance(d, off, n, guard) ==
    IF guard THEN ReadFailed(off, "TruncatedData", {})
    ELSE IF ~InSpan(d, off, n) THEN ReadFailed(off, "OutOfRange", {})
    ELSE ReadDone(Slice(d, off, n), off, {})

ReadFixed(d, off, n, guard) ==
    IF guard THEN ReadFailed(off, "TruncatedData", {})
    ELSE IF ~InSpan(d, off, n) THEN ReadFailed(off, "OutOfRange", {})
    ELSE ReadDone(Slice(d, off, n), off + n, {})

ReadInt32(d, off) ==
    LET r == ReadFixed(d, off, 4, Int32Guard(off, Len(d)))
    IN IF r.ok THEN [r EXCEPT !.value = LittleEndianInt32(d, off)] ELSE r

ReadInt64(d, off) ==
    LET r == ReadFixed(d, off, 8, Int64Guard(off, Len(d)))
    IN IF r.ok THEN [r EXCEPT !.value = FromTwos(r.value)] ELSE r

ReadDouble(d, off) ==
    LET r == ReadFixed(d, off, 8, DoubleGuard(off, Len(d)))
    IN IF r.ok THEN [r EXCEPT !.value = UnpackDouble(r.value)] ELSE r

ReadBoolean(d, off) ==
    LET r == ReadFixed(d, off, 1, BooleanGuard(off, Len(d)))
    IN IF r.ok THEN [r EXCEPT !.value = PyBool(r.value[1] # 0)] ELSE r

ReadGuid(d, off) == ReadFixed(d, off, 16, GuidGuard(off, Len(d)))

ReadMarker(d, off) ==
    LET r == ReadFixed(d, off, 1, MarkerGuard(off, Len(d)))
    IN IF r.ok THEN [r EXCEPT !.value = r.value[1]] ELSE r

\* var length = ReadInt32(data, ref offset); the guard; then the payload copy
ReadLengthPrefixed(d, off, isString) ==
    LET r == ReadInt32(d, off)
    IN IF ~r.ok THEN r
       ELSE LET length == r.value
                at == r.offset
                guard == IF isString THEN StringGuard(length, at, Len(d))
                         ELSE BytesGuard(length, at, Len(d))
                copy == {[at |-> at, length |-> length]}
            IN IF guard THEN ReadFailed(at, "TruncatedData", {})
               ELSE IF ~InSpan(d, at, length) THEN ReadFailed(at, "OutOfRange", copy)
               ELSE ReadDone(Slice(d, at, length), at + length, copy)

ReadString(d, off) ==
    LET r == ReadLengthPrefixed(d, off, TRUE)
    IN IF r.ok THEN [r EXCEPT !.value = DecodeUtf8(r.value)] ELSE r

ReadBytes(d, off) == ReadLengthPrefixed(d, off, FALSE)

(***************************************************************************)
(* Inputs.                                                                 *)
(***************************************************************************)
sUserId == <<85, 115, 101, 114, 73, 100>>  \* "UserId"
sName == <<78, 97, 109, 101>>  \* "Name"
sActive == <<65, 99, 116, 105, 118, 101>>  \* "Active"
sJohnDoe == <<74, 111, 104, 110, 32, 68, 111, 101>>  \* "John Doe"
sCity == <<67, 105, 116, 121>>  \* "City"
sCountry == <<67, 111, 117, 110, 116, 114, 121>>  \* "Country"
sEmoji == <<69, 109, 111, 106, 105>>  \* "Emoji"
sCafe == <<67, 97, 102, 233>>  \* "Café"
sNihon == <<26085, 26412>>  \* "日本"
sRocket == <<128640>>  \* "🚀"
sId == <<73, 100>>  \* "Id"
sOptionalField == <<79, 112, 116, 105, 111, 110, 97, 108, 70, 105, 101, 108, 100>>  \* "OptionalField"
sTest == <<84, 101, 115, 116>>  \* "Test"
sV == <<86>>  \* "V"
sA == <<97>>  \* "a"
sE == <<233>>  \* "é"
sHe == <<104, 233>>  \* "hé"

Col(n, v) == [name |-> n, value |-> v]

Int42 == PyInt(FALSE, <<42>>)
Int1 == PyInt(FALSE, <<1>>)

\* example_1_simple_types, example_2_unicode_strings, example_4_null_handling
Example1 == << Col(sUserId, Int42), Col(sName, PyStr(sJohnDoe)), Col(sActive, PyBool(TRUE)) >>
Example2 == << Col(sCity, PyStr(sCafe)), Col(sCountry, PyStr(sNihon)), Col(sEmoji, PyStr(sRocket)) >>
Example4 == << Col(sId, Int1), Col(sOptionalField, PyNone), Col(sName, PyStr(sTest)) >>

\* ints at the edges of the 32-bit and 64-bit ranges
EdgeInts ==
    { PyInt(FALSE, <<>>), PyInt(TRUE, <<1>>), PyInt(FALSE, <<0, 1>>),
      PyInt(FALSE, HalfRangeLess1(4)), PyInt(FALSE, HalfRange(4)),
      PyInt(TRUE, HalfRange(4)), PyInt(TRUE, <<1, 0, 0, 128>>),
      PyInt(FALSE, HalfRangeLess1(8)), PyInt(TRUE, HalfRange(8)),
      PyInt(FALSE, HalfRange(8)), PyInt(TRUE, <<1, 0, 0, 0, 0, 0, 0, 128>>),
      PyInt(FALSE, <<0, 0, 0, 0, 0, 0, 0, 0, 1>>) }

EdgeValues ==
    EdgeInts \cup
    { PyBool(FALSE), PyBool(TRUE),
      PyFloat(0, 1023, <<0, 0, 0, 0, 0, 0, 8>>),       \* 1.5
      PyFloat(1, 0, <<0, 0, 0, 0, 0, 0, 0>>),          \* -0.0
      PyFloat(0, 2047, <<1, 0, 0, 0, 0, 0, 8>>),       \* a NaN
      PyFloat(1, 1029, <<205, 204, 204, 204, 204, 76, 5>>),
      PyStr(<<>>), PyStr(sRocket), PyBytes(<<>>), PyBytes(<<0, 255, 128>>),
      PyList(<<>>), PyList(<<1, 2>>), PyList(<<10, 305>>) }

GenNames == {sA, sE, sId}
GenValues == {PyNone, PyBool(TRUE), PyInt(FALSE, <<44, 1>>), PyStr(sHe)}

\* dict keys are unique
UniqueNames(r) == \A i, j \in 1..Len(r) : i # j => r[i].name # r[j].name

GenRows ==
    UNION { { r \in [1..n -> [name : GenNames, value : GenValues]] : UniqueNames(r) }
            : n \in 0..MaxCols }

Rows == {Example1, Example2, Example4} \cup { <<Col(sV, v)>> : v \in EdgeValues } \cup GenRows

Init ==
    /\ row \in Rows
    /\ pc = "serialize"
    /\ buffer = <<>> /\ steps = <<>> /\ encErr = FALSE
    /\ data = <<>> /\ tamper = "" /\ offset = 0 /\ columnCount = 0
    /\ result = <<>> /\ name = <<>> /\ marker = -1
    /\ outcome = "none" /\ kind = "" /\ last = [op |-> "", start |-> 0]
    /\ copied = {}
    /\ lines = <<>> /\ base = 0 /\ before = <<>> /\ ran = "" /\ runs = 0

Serialize ==
    /\ pc = "serialize"
    /\ LET s == serialize(row)
       IN /\ encErr' = ~s.ok
          /\ buffer' = s.buffer
          /\ steps' = s.steps
          /\ pc' = IF s.ok THEN "store" ELSE "done"
    /\ UNCHANGED <<row, data, tamper, offset, columnCount, result, name, marker,
                   outcome, kind, last, copied>>
    /\ UNCHANGED patch

(***************************************************************************)
(* The storage layer hands decode a slice: the buffer as written, a        *)
(* truncated one, or one with a corrupted count, length field or marker.   *)
(***************************************************************************)
Poke(buf, off, bs) ==
    [i \in 1..Len(buf) |-> IF i \in (off + 1)..(off + Len(bs)) THEN bs[i - off] ELSE buf[i]]

LengthFieldOffsets ==
    { steps[i].offset : i \in { j \in 1..Len(steps) : steps[j].description = "NameLength" } }
    \cup
    { steps[i].offset : i \in { j \in 2..Len(steps) :
            /\ steps[j].description = "Value"
            /\ steps[j - 1].value \in {"String", "Bytes"} } }

MarkerOffsets ==
    { steps[i].offset : i \in { j \in 1..Len(steps) : steps[j].description = "TypeMarker" } }

CraftedLengths(orig) ==
    { <<255, 255, 255, 255>>, <<0, 0, 0, 128>>, <<255, 255, 255, 127>>,
      <<240, 255, 255, 127>>, PackUInt32(orig + 1) }

CraftedCounts == { PackUInt32(Len(row) + 1), <<255, 255, 255, 127>>, <<255, 255, 255, 255>> }

CraftedMarkers == (0..9) \cup {255}

BeginDecode(d, t) ==
    /\ pc = "store"
    /\ data' = d
    /\ tamper' = t
    /\ pc' = "count"
    /\ UNCHANGED <<row, buffer, steps, encErr, offset, columnCount, result, name,
                   marker, outcome, kind, last, copied>>
    /\ UNCHANGED patch

StoreExact == BeginDecode(buffer, "exact")

StorePrefix == \E k \in 0..(Len(buffer) - 1) : BeginDecode(SubSeq(buffer, 1, k), "prefix")

StoreLength ==
    \E off \in LengthFieldOffsets :
        \E c \in CraftedLengths(LittleEndianInt32(buffer, off)) :
            BeginDecode(Poke(buffer, off, c), "length")

StoreMarker ==
    \E off \in MarkerOffsets :
        \E m \in CraftedMarkers \ {buffer[off + 1]} :
            BeginDecode(Poke(buffer, off, <<m>>), "marker")

StoreCount ==
    \E c \in CraftedCounts : BeginDecode(Poke(buffer, 0, c), "count")

(***************************************************************************)
(* decode: ColumnCount, then per column NameLength, Name, Marker, Payload. *)
(***************************************************************************)
\* ColumnCount is a uint32: a bit pattern that is negative as an int32 is
\* a count of at least 2^31
MoreColumns(decoded, count) == count < 0 \/ decoded < count

\* the row already partially constructed is discarded
Discard_Keep(partial) == partial

Discard(partial) == <<>>

Abort(r, op) ==
    /\ outcome' = "Failure"
    /\ kind' = r.kind
    /\ result' = Discard(result)
    /\ offset' = r.offset
    /\ last' = [op |-> op, start |-> offset]
    /\ copied' = copied \cup r.copy
    /\ pc' = "done"

\* the loop test after `decoded` columns: the next column, or Success
Continue(decoded, count) ==
    IF MoreColumns(decoded, count)
        THEN pc' = "name" /\ outcome' = outcome
        ELSE pc' = "done" /\ outcome' = "Success"

ReadColumnCount ==
    /\ pc = "count"
    /\ LET r == ReadInt32(data, offset)
       IN IF ~r.ok
            THEN Abort(r, "ReadColumnCount") /\ UNCHANGED <<columnCount, name, marker>>
            ELSE /\ columnCount' = r.value
                 /\ offset' = r.offset
                 /\ last' = [op |-> "ReadColumnCount", start |-> offset]
                 /\ Continue(0, r.value)
                 /\ UNCHANGED <<result, name, marker, kind, copied>>
    /\ UNCHANGED <<row, buffer, steps, encErr, data, tamper>>
    /\ UNCHANGED patch

ReadName ==
    /\ pc = "name"
    /\ LET r == ReadString(data, offset)
       IN IF ~r.ok
            THEN Abort(r, "ReadString") /\ UNCHANGED <<name, marker>>
            ELSE /\ name' = r.value
                 /\ offset' = r.offset
                 /\ last' = [op |-> "ReadString", start |-> offset]
                 /\ copied' = copied \cup r.copy
                 /\ pc' = "marker"
                 /\ UNCHANGED <<result, marker, outcome, kind>>
    /\ UNCHANGED <<row, buffer, steps, encErr, data, tamper, columnCount>>
    /\ UNCHANGED patch

ReadTypeMarker ==
    /\ pc = "marker"
    /\ LET r == ReadMarker(data, offset)
       IN IF ~r.ok
            THEN Abort(r, "ReadMarker") /\ UNCHANGED <<name, marker>>
            ELSE /\ marker' = r.value
                 /\ offset' = r.offset
                 /\ last' = [op |-> "ReadMarker", start |-> offset]
                 /\ pc' = "value"
                 /\ UNCHANGED <<result, name, outcome, kind, copied>>
    /\ UNCHANGED <<row, buffer, steps, encErr, data, tamper, columnCount>>
    /\ UNCHANGED patch

\* the int32 payload as a value
ReadInt32Value(d, off) ==
    LET r == ReadInt32(d, off)
    IN IF r.ok THEN [r EXCEPT !.value = FromTwos(Slice(d, off, 4))] ELSE r

WrapStr(r) == IF r.ok THEN [r EXCEPT !.value = PyStr(r.value)] ELSE r
WrapBytes(r) == IF r.ok THEN [r EXCEPT !.value = PyBytes(r.value)] ELSE r

\* the read a marker selects: [op, r].  DateTime and Decimal have no payload
\* layout, and any other byte is no marker: both are UnsupportedType.
Dispatch(m, d, off) ==
    CASE m = Null -> [op |-> "Null", r |-> ReadDone(PyNone, off, {})]
      [] m = Int32 -> [op |-> "ReadInt32", r |-> ReadInt32Value(d, off)]
      [] m = Int64 -> [op |-> "ReadInt64", r |-> ReadInt64(d, off)]
      [] m = Double -> [op |-> "ReadDouble", r |-> ReadDouble(d, off)]
      [] m = Boolean -> [op |-> "ReadBoolean", r |-> ReadBoolean(d, off)]
      [] m = String -> [op |-> "ReadString", r |-> WrapStr(ReadString(d, off))]
      [] m = Bytes -> [op |-> "ReadBytes", r |-> WrapBytes(ReadBytes(d, off))]
      [] OTHER -> [op |-> "Dispatch", r |-> ReadFailed(off, "UnsupportedType", {})]

ReadValue ==
    /\ pc = "value"
    /\ LET x == Dispatch(marker, data, offset)
       IN IF ~x.r.ok
            THEN Abort(x.r, x.op) /\ UNCHANGED <<name, marker>>
            ELSE /\ result' = Append(result, [name |-> name, value |-> x.r.value])
                 /\ offset' = x.r.offset
                 /\ last' = [op |-> x.op, start |-> offset]
                 /\ copied' = copied \cup x.r.copy
                 /\ name' = <<>>
                 /\ marker' = marker
                 /\ Continue(Len(result) + 1, columnCount)
                 /\ UNCHANGED kind
    /\ UNCHANGED <<row, buffer, steps, encErr, data, tamper, columnCount>>
    /\ UNCHANGED patch

Next ==
    \/ Serialize
    \/ StoreExact
    \/ StorePrefix
    \/ StoreLength
    \/ StoreMarker
    \/ StoreCount
    \/ ReadColumnCount
    \/ ReadName
    \/ ReadTypeMarker
    \/ ReadValue

Spec == Init /\ [][Next]_vars

\* one decode call: a synchronous loop that performs no I/O and never blocks,
\* so a step that can be taken is taken
DecodeStep == ReadColumnCount \/ ReadName \/ ReadTypeMarker \/ ReadValue

SpecFair == Spec /\ WF_vars(DecodeStep)

TypeOK ==
    /\ pc \in {"serialize", "store", "count", "name", "marker", "value", "done"}
    /\ outcome \in {"none", "Success", "Failure"}
    /\ kind \in {"", "TruncatedData", "OutOfRange", "UnsupportedType"}
    /\ ran \in {"", "fix_bounds_v3", "fix_bounds_v2", "fix_duplicate"}
    /\ runs \in 0..MaxRuns

(***************************************************************************)
(* The wire layout as the specification states it, for the properties.     *)
(***************************************************************************)
Utf8Size(cp) == IF cp < 128 THEN 1 ELSE IF cp < 2048 THEN 2 ELSE IF cp < 65536 THEN 3 ELSE 4

RECURSIVE ByteLength(_)
ByteLength(s) == IF s = <<>> THEN 0 ELSE Utf8Size(Head(s)) + ByteLength(Tail(s))

InInt64(v) == IntLeq(PyInt(TRUE, HalfRange(8)), v) /\ IntLeq(v, PyInt(FALSE, HalfRangeLess1(8)))
InInt32(v) == IntLeq(PyInt(TRUE, HalfRange(4)), v) /\ IntLeq(v, PyInt(FALSE, HalfRangeLess1(4)))

\* the text form of the sample values of no serialized type
TextForm(v) ==
    CASE v.items = <<>> -> <<91, 93>>                                \* "[]"
      [] v.items = <<1, 2>> -> <<91, 49, 44, 32, 50, 93>>            \* "[1, 2]"
      [] v.items = <<10, 305>> -> <<91, 49, 48, 44, 32, 51, 48, 53, 93>>   \* "[10, 305]"

\* the marker of the variant a value belongs to
VariantOf(v) ==
    CASE v.t = "NoneType" -> 0
      [] v.t = "bool" -> 4
      [] v.t = "int" -> IF InInt32(v) THEN 1 ELSE 2
      [] v.t = "float" -> 3
      [] v.t = "str" -> 6
      [] v.t = "bytes" -> 7
      [] v.t = "list" -> 6

PayloadSize(v) ==
    CASE v.t = "NoneType" -> 0
      [] v.t = "bool" -> 1
      [] v.t = "int" -> IF InInt32(v) THEN 4 ELSE 8
      [] v.t = "float" -> 8
      [] v.t = "str" -> 4 + ByteLength(v.s)
      [] v.t = "bytes" -> 4 + Len(v.bs)
      [] v.t = "list" -> 4 + Len(TextForm(v))

ColumnSize(c) == 4 + ByteLength(c.name) + 1 + PayloadSize(c.value)

RECURSIVE ColumnStart(_, _)
ColumnStart(r, i) == IF i = 1 THEN 4 ELSE ColumnStart(r, i - 1) + ColumnSize(r[i - 1])

MarkerAt(r, i) == ColumnStart(r, i) + 4 + ByteLength(r[i].name)
PayloadAt(r, i) == MarkerAt(r, i) + 1

Encoded == pc # "serialize" /\ ~encErr
DecodedExact == pc = "done" /\ tamper = "exact"

Representable(r) ==
    \A i \in 1..Len(r) :
        /\ r[i].value.t \in {"NoneType", "bool", "int", "float", "str", "bytes"}
        /\ r[i].value.t = "int" => InInt64(r[i].value)

\* C1: round trip.  For every representable row (values of the variants Null,
\* Int32, Int64, Double, Boolean, String, Bytes) serialize returns a buffer and
\* decode of that buffer ends in Success with the same columns in the same
\* order, the same names and the same values.
C1_RoundTrip ==
    Representable(row) =>
        /\ pc # "serialize" => ~encErr
        /\ DecodedExact => outcome = "Success" /\ result = row

C1_Witness ==
    /\ DecodedExact /\ row = Example2 /\ outcome = "Success" /\ result = Example2

\* C2: exact length.  The buffer serialize returns has 4 + the sum over the
\* columns of (4 + UTF-8 length of the name + 1 + payload size) bytes; the row
\* {UserId: 42, Name: "John Doe", Active: true} gives 52 bytes, column count 3.
C2_ExactLength ==
    Encoded =>
        /\ Len(buffer) = ColumnStart(row, Len(row) + 1)
        /\ row = Example1 => Len(buffer) = 52 /\ SubSeq(buffer, 1, 4) = <<3, 0, 0, 0>>

C2_Witness == Encoded /\ row = Example1 /\ Len(buffer) = 52

\* C3: truncation safety.  Decoding a strict prefix of serialize(row) ends in
\* Failure of kind TruncatedData, and no read or copy is attempted outside the
\* prefix.
C3_TruncationSafety ==
    tamper = "prefix" =>
        /\ Len(data) < Len(buffer) /\ data = SubSeq(buffer, 1, Len(data))
        /\ kind # "OutOfRange"
        /\ offset >= 0 /\ offset <= Len(data)
        /\ \A c \in copied : c.length >= 0 /\ c.at + c.length <= Len(data)
        /\ pc = "done" => outcome = "Failure" /\ kind = "TruncatedData"

C3_Witness ==
    /\ tamper = "prefix" /\ pc = "done" /\ row = Example1
    /\ Len(data) = 51 /\ kind = "TruncatedData" /\ last.op = "ReadBoolean"

\* the length field the last String/Bytes read took from the buffer is negative
\* or exceeds the bytes that remain after it
BadLengthRead ==
    /\ last.op \in {"ReadString", "ReadBytes"}
    /\ InSpan(data, last.start, 4)
    /\ LET length == LittleEndianInt32(data, last.start)
       IN length < 0 \/ length > Len(data) - (last.start + 4)

\* C4: negative or overflowing length rejection.  Whenever decode reads a
\* String or Bytes length field that is negative as an int32, or that exceeds
\* the bytes remaining after the field, decode ends in Failure of kind
\* InvalidLength or TruncatedData and the payload copy sized from that length
\* is never reached.
C4_BadLengthRejected ==
    BadLengthRead =>
        /\ outcome = "Failure"
        /\ kind \in {"InvalidLength", "TruncatedData"}
        /\ \A c \in copied : c.at # last.start + 4

\* C5 as claimed: for every integer value the encoder emits marker 1 and a
\* 4-byte signed little-endian payload when the value is in the int32 range and
\* otherwise marker 2 and an 8-byte signed little-endian payload; a boolean is
\* always marker 4 and one byte 0 or 1.
IntegerEmitted(i) ==
    LET v == row[i].value
        w == IF InInt32(v) THEN 4 ELSE 8
    IN /\ ~encErr
       /\ buffer[MarkerAt(row, i) + 1] = (IF InInt32(v) THEN 1 ELSE 2)
       /\ FromTwos(Slice(buffer, PayloadAt(row, i), w)) = v
       /\ PayloadAt(row, i) + w = ColumnStart(row, i + 1)

BooleanEmitted(i) ==
    /\ ~encErr
    /\ buffer[MarkerAt(row, i) + 1] = 4
    /\ Slice(buffer, PayloadAt(row, i), 1) = <<IF row[i].value.b THEN 1 ELSE 0>>
    /\ PayloadAt(row, i) + 1 = ColumnStart(row, i + 1)

C5_EveryInteger ==
    pc # "serialize" =>
        \A i \in 1..Len(row) :
            /\ row[i].value.t = "int" => IntegerEmitted(i)
            /\ row[i].value.t = "bool" => BooleanEmitted(i)

\* C5, amended: the same for every integer of the signed 64-bit range; for an
\* integer outside that range serialize raises and returns no buffer.
C5_WidthSelection ==
    pc # "serialize" =>
        /\ encErr <=> \E i \in 1..Len(row) :
                          row[i].value.t = "int" /\ ~InInt64(row[i].value)
        /\ encErr => buffer = <<>>
        /\ ~encErr =>
             \A i \in 1..Len(row) :
                /\ row[i].value.t = "int" => IntegerEmitted(i)
                /\ row[i].value.t = "bool" => BooleanEmitted(i)

C5_Witness ==
    /\ Encoded
    /\ row = <<Col(sV, PyInt(FALSE, HalfRange(4)))>>
    /\ buffer[MarkerAt(row, 1) + 1] = 2
    /\ Len(buffer) = PayloadAt(row, 1) + 8

\* C6: unknown-type fallback.  A value of none of the serialized types is
\* emitted as marker 6, a 4-byte length and the UTF-8 bytes of its text form,
\* and decoding the column returns the String equal to that text.
C6_Fallback ==
    \A i \in 1..Len(row) :
        row[i].value.t = "list" =>
            LET text == TextForm(row[i].value)
            IN /\ pc # "serialize" =>
                    /\ ~encErr
                    /\ buffer[MarkerAt(row, i) + 1] = 6
                    /\ Slice(buffer, PayloadAt(row, i), 4) = <<Len(text), 0, 0, 0>>
                    /\ Slice(buffer, PayloadAt(row, i) + 4, Len(text)) = text
                    /\ PayloadAt(row, i) + 4 + Len(text) = ColumnStart(row, i + 1)
               /\ DecodedExact =>
                    /\ outcome = "Success"
                    /\ result[i] = Col(row[i].name, PyStr(text))

C6_Witness ==
    /\ DecodedExact /\ row = <<Col(sV, PyList(<<10, 305>>))>>
    /\ outcome = "Success" /\ result[1].value.t = "str" /\ Len(result[1].value.s) = 9

Decoding == pc \in {"count", "name", "marker", "value"}
Remaining == Len(data) - offset

\* a fixed-size read of n bytes at the cursor: it succeeds and advances by n
\* exactly when n bytes remain, and otherwise fails as TruncatedData with the
\* cursor where it was
FixedReadChecked(r, n) ==
    IF Remaining >= n THEN r.ok /\ r.offset = offset + n
    ELSE ~r.ok /\ r.kind = "TruncatedData" /\ r.offset = offset

\* the declared length of a String/Bytes field at the cursor lies within the
\* bytes that remain after the field
PayloadFits ==
    /\ Remaining >= 4
    /\ LittleEndianInt32(data, offset) >= 0
    /\ LittleEndianInt32(data, offset) <= Remaining - 4

\* a String/Bytes read as the code makes it: the length field through
\* ReadInt32, then the payload
LengthReadTwoStage(r) ==
    IF PayloadFits THEN r.ok /\ r.offset = offset + 4 + LittleEndianInt32(data, offset)
    ELSE IF Remaining < 4 THEN ~r.ok /\ r.kind = "TruncatedData" /\ r.offset = offset
    ELSE ~r.ok /\ r.offset = offset + 4

FixedReadsChecked ==
    /\ FixedReadChecked(ReadInt32(data, offset), 4)
    /\ FixedReadChecked(ReadInt64(data, offset), 8)
    /\ FixedReadChecked(ReadDouble(data, offset), 8)
    /\ FixedReadChecked(ReadBoolean(data, offset), 1)
    /\ FixedReadChecked(ReadGuid(data, offset), 16)

BoundsFailure == outcome = "Failure" /\ kind # "UnsupportedType"

\* C7 as claimed: 0 <= cursor <= buffer length throughout a decode call, and
\* every primitive read (int32 4 bytes, int64 8, double 8, boolean 1, guid 16,
\* string/bytes 4 + declared length) advances the cursor only after checking
\* that the bytes it requires remain; when the check fails the cursor is not
\* advanced and decode aborts: a read that fails leaves the cursor where the
\* read began.
C7_EveryReadAtomic ==
    /\ offset >= 0 /\ offset <= Len(data)
    /\ Decoding => FixedReadsChecked
    /\ BoundsFailure => pc = "done" /\ offset = last.start

\* C7, amended: 0 <= cursor <= buffer length throughout; a fixed-size read
\* advances only after its guard found the bytes it requires, and on failure
\* leaves the cursor where it was and aborts decode with TruncatedData; a
\* String/Bytes read consumes its 4-byte length field through the guarded
\* int32 read and advances over the payload only when the declared length lies
\* within the bytes that remain, otherwise decode aborts with the cursor just
\* after the length field.
C7_BoundsPrecondition ==
    /\ offset >= 0 /\ offset <= Len(data)
    /\ Decoding =>
        /\ FixedReadsChecked
        /\ LengthReadTwoStage(ReadString(data, offset))
        /\ LengthReadTwoStage(ReadBytes(data, offset))
    /\ BoundsFailure =>
        /\ pc = "done"
        /\ \/ offset = last.start
           \/ /\ last.op \in {"ReadString", "ReadBytes"}
              /\ offset = last.start + 4
        /\ last.op \notin {"ReadString", "ReadBytes"} => kind = "TruncatedData"

C7_Witness ==
    /\ tamper = "prefix" /\ row = Example4 /\ pc = "done"
    /\ last.op = "ReadString" /\ kind = "TruncatedData"
    /\ offset = last.start + 4 /\ offset < Len(data)

\* C8: unknown marker.  Once decode has read a marker byte that is none of the
\* markers 0..8 of the wire table, it dispatches no read: it ends in Failure of
\* kind UnsupportedType with the cursor just after the marker byte.
C8_UnknownMarker ==
    (marker # -1 /\ marker \notin 0..8) =>
        \/ pc = "value" /\ outcome = "none"
        \/ /\ pc = "done" /\ outcome = "Failure" /\ kind = "UnsupportedType"
           /\ last.op = "Dispatch" /\ offset = last.start
           /\ data[offset] = marker

C8_Witness ==
    /\ tamper = "marker" /\ row = Example1 /\ marker = 255 /\ pc = "done"
    /\ kind = "UnsupportedType" /\ offset = 28

\* C9: no partial row.  A decode call ends in exactly one of Success(row) and
\* Failure(kind); a Failure carries no row, whatever was decoded before the
\* violation, and Success is returned only with all ColumnCount columns.
C9_NoPartialRow ==
    /\ (pc = "done" /\ ~encErr) <=> outcome \in {"Success", "Failure"}
    /\ outcome = "Failure" => result = <<>> /\ kind # ""
    /\ outcome = "Success" => kind = "" /\ Len(result) = columnCount
    /\ outcome = "none" => kind = ""

C9_Witness ==
    /\ tamper = "prefix" /\ row = Example1 /\ Len(data) = 30 /\ pc = "done"
    /\ outcome = "Failure" /\ result = <<>> /\ offset > 19

ColumnBytes == 4 + 1
IterationsBounded ==
    pc \in {"name", "marker", "value"} \/ outcome = "Success" =>
        /\ 4 + ColumnBytes * Len(result) <= offset
        /\ offset <= Len(data)
        /\ Len(result) <= Len(data)

Terminal == pc = "done" /\ outcome \in {"Success", "Failure"}

\* C11: decode terminates.  For every buffer handed to decode, a ColumnCount
\* far larger than the buffer could hold included, the decode loop eventually
\* reaches Success or Failure, and the number of columns it iterates over is
\* bounded by the buffer length.
C11_DecodeTerminates ==
    /\ [](IterationsBounded)
    /\ (pc = "count") ~> Terminal

C11_Witness ==
    /\ tamper = "count" /\ columnCount = MaxInt32 /\ Len(row) = MaxCols
    /\ Terminal /\ outcome = "Failure" /\ kind = "TruncatedData"
    /\ last.op = "ReadString" /\ offset = Len(data)

(***************************************************************************)
(* The patch scripts fix_bounds_v3.py, fix_bounds_v2.py and                *)
(* fix_duplicate.py.  Each reads DatabaseExtensions.cs with readlines(),   *)
(* edits the list of lines in place and writes it back with writelines().  *)
(* A line is its text, line break included; list indices are 0-based as in *)
(* the scripts.                                                            *)
(***************************************************************************)
\* needle in line
Contains(line, needle) ==
    \E i \in 1..(Len(line) - Len(needle) + 1) :
        SubSeq(line, i, i + Len(needle) - 1) = needle

\* lines[i]
At(ls, i) == ls[i + 1]

\* lines.insert(i, x)
Insert(ls, i, x) ==
    IF i >= Len(ls) THEN Append(ls, x)
    ELSE SubSeq(ls, 1, i) \o <<x>> \o SubSeq(ls, i + 1, Len(ls))

\* del lines[i]
Delete(ls, i) == SubSeq(ls, 1, i) \o SubSeq(ls, i + 2, Len(ls))

\* f.writelines(lines): the texts one after the other
RECURSIVE writelines(_)
writelines(ls) == IF ls = <<>> THEN "" ELSE Head(ls) \o writelines(Tail(ls))

\* f.readlines(): the content cut after every line break
RECURSIVE readlines(_)
readlines(content) ==
    IF content = "" THEN <<>>
    ELSE LET breaks == { i \in 1..Len(content) : SubSeq(content, i, i) = "\n" }
             cut == IF breaks = {} THEN Len(content)
                    ELSE CHOOSE i \in breaks : \A j \in breaks : i <= j
         IN <<SubSeq(content, 1, cut)>> \o readlines(SubSeq(content, cut + 1, Len(content)))

\* a script's run: [ok, lines]; ok is FALSE when it raised (IndexError)
\* before it wrote the file back
Edited(ls) == [ok |-> TRUE, lines |-> ls]
Raised(ls) == [ok |-> FALSE, lines |-> ls]

\* the method signatures the scripts look for
SigReadString == "private static string ReadString(ReadOnlySpan<byte> data, ref int offset)"
SigReadBytes == "private static byte[] ReadBytes(ReadOnlySpan<byte> data, ref int offset)"
SigReadGuid == "private static Guid ReadGuid(ReadOnlySpan<byte> data, ref int offset)"
SigReadBoolean == "private static bool ReadBoolean(ReadOnlySpan<byte> data, ref int offset)"
SigReadInt32 == "private static int ReadInt32(ReadOnlySpan<byte> data, ref int offset)"
SigReadInt64 == "private static long ReadInt64(ReadOnlySpan<byte> data, ref int offset)"

VarLength == "var length = ReadInt32(data, ref offset);"
ExistingCheck == "truncated at offset"

indent == "            "

\* the guard lines both scripts insert
IfLength == indent \o "if (length < 0 || offset + length > data.Length)\n"
IfFixed(bytes_needed) == indent \o "if (offset + " \o bytes_needed \o " > data.Length)\n"

\* the throw lines of fix_bounds_v3.py
ThrowLength ==
    indent \o "    throw new InvalidOperationException($\"Truncated at offset {offset}: length={length}, remaining={data.Length - offset}\");\n"
ThrowFixed(bytes_needed) ==
    indent \o "    throw new InvalidOperationException($\"Truncated at offset {offset}: need "
        \o bytes_needed \o " bytes, have {data.Length - offset}\");\n"

Least(S) == CHOOSE i \in S : \A j \in S : i <= j
Smaller(a, b) == IF a < b THEN a ELSE b

\* fix_bounds_v3.py, find_and_fix_method, from index i of its while loop
RECURSIVE find_and_fix_method_from(_, _, _, _)
find_and_fix_method_from(ls, method_signature, bytes_needed, i) ==
    IF i >= Len(ls) THEN Edited(ls)
    ELSE IF ~Contains(At(ls, i), method_signature)
        THEN find_and_fix_method_from(ls, method_signature, bytes_needed, i + 1)
    ELSE IF i + 1 >= Len(ls) THEN Raised(ls)
    ELSE
        LET brace_line == IF Contains(At(ls, i + 1), "{") THEN i + 1 ELSE i
            check_line == brace_line + 1
            found == { j \in brace_line..(Smaller(Len(ls), brace_line + 10) - 1) :
                           Contains(At(ls, j), VarLength) }
        IN IF check_line < Len(ls) /\ Contains(At(ls, check_line), ExistingCheck)
               THEN Edited(ls)
           ELSE IF bytes_needed = "length"
               THEN IF found # {}
                        THEN Edited(Insert(Insert(ls, Least(found) + 1, IfLength),
                                           Least(found) + 2, ThrowLength))
                    ELSE find_and_fix_method_from(ls, method_signature, bytes_needed, i + 1)
           ELSE Edited(Insert(Insert(ls, check_line, IfFixed(bytes_needed)),
                              check_line + 1, ThrowFixed(bytes_needed)))

find_and_fix_method(r, method_signature, bytes_needed) ==
    IF ~r.ok THEN r
    ELSE find_and_fix_method_from(r.lines, method_signature, bytes_needed, 0)

\* fix_bounds_v3.py, the six calls on the lines read
fix_bounds_v3(ls) ==
    find_and_fix_method(
        find_and_fix_method(
            find_and_fix_method(
                find_and_fix_method(
                    find_and_fix_method(
                        find_and_fix_method(Edited(ls), SigReadString, "length"),
                        SigReadBytes, "length"),
                    SigReadGuid, "16"),
                SigReadBoolean, "1"),
            SigReadInt32, "4"),
        SigReadInt64, "8")

\* the throw lines of fix_bounds_v2.py
ThrowNamed(what, detail) ==
    indent \o "    throw new InvalidOperationException($\"" \o what
        \o " truncated at offset {offset}: " \o detail \o "\");\n"
LengthDetail == "length={length}, remaining={data.Length - offset}"
FixedDetail(need) == "need " \o need \o ", have {data.Length - offset}"

\* fix_bounds_v2.py, the check_code of its add_bounds_check call: one list
\* element holding four lines
check_code_ReadString ==
    "        {\n" \o indent \o VarLength \o "\n" \o IfLength
        \o ThrowNamed("String", LengthDetail)

\* fix_bounds_v2.py, add_bounds_check, from index i of its while loop
RECURSIVE add_bounds_check_from(_, _, _, _)
add_bounds_check_from(ls, start_pattern, check_code, i) ==
    IF i >= Len(ls) THEN ls
    ELSE IF Contains(At(ls, i), start_pattern)
        THEN IF i + 1 < Len(ls) /\ Contains(At(ls, i + 1), ExistingCheck)
                 THEN add_bounds_check_from(ls, start_pattern, check_code, i + 1)
             ELSE add_bounds_check_from(Insert(ls, i + 1, check_code),
                                        start_pattern, check_code, i + 2)
    ELSE add_bounds_check_from(ls, start_pattern, check_code, i + 1)

add_bounds_check(ls, start_pattern, check_code) ==
    add_bounds_check_from(ls, start_pattern, check_code, 0)

\* the ReadString / ReadBytes branch of the per-method loop: look ahead up to
\* 10 lines for the length read and insert the guard after it
GuardAfterLength(ls, i, throw_line) ==
    LET found == { j \in (i + 1)..(Smaller(Len(ls), i + 10) - 1) :
                       Contains(At(ls, j), VarLength) }
        j == Least(found)
    IN IF found = {} THEN ls
       ELSE IF j + 1 < Len(ls) /\ ~Contains(At(ls, j + 1), ExistingCheck)
           THEN Insert(Insert(ls, j + 1, IfLength), j + 2, throw_line)
       ELSE ls

\* a fixed-size branch of the per-method loop, its signature already matched:
\* [ok, taken, lines]
GuardAfterBrace(ls, i, bytes_needed, throw_line) ==
    IF i + 1 >= Len(ls) THEN [ok |-> FALSE, taken |-> FALSE, lines |-> ls]
    ELSE IF ~Contains(At(ls, i + 1), "{") THEN [ok |-> TRUE, taken |-> FALSE, lines |-> ls]
    ELSE IF i + 2 >= Len(ls) THEN [ok |-> FALSE, taken |-> TRUE, lines |-> ls]
    ELSE IF ~Contains(At(ls, i + 2), ExistingCheck)
        THEN [ok |-> TRUE, taken |-> TRUE,
              lines |-> Insert(Insert(ls, i + 2, IfFixed(bytes_needed)), i + 3, throw_line)]
    ELSE [ok |-> TRUE, taken |-> TRUE, lines |-> ls]

\* the if / elif chain of the loop body at index i: [ok, lines]
PerMethod(ls, i) ==
    LET line == At(ls, i)
        guid == GuardAfterBrace(ls, i, "16", ThrowNamed("Guid", FixedDetail("16 bytes")))
        boolean == GuardAfterBrace(ls, i, "1", ThrowNamed("Boolean", FixedDetail("1 byte")))
        int32 == GuardAfterBrace(ls, i, "4", ThrowNamed("Int32", FixedDetail("4 bytes")))
        int64 == GuardAfterBrace(ls, i, "8", ThrowNamed("Int64", FixedDetail("8 bytes")))
        IsGuid == Contains(line, "private static Guid ReadGuid")
        IsBoolean == Contains(line, "private static bool ReadBoolean")
        IsInt32 == Contains(line, SigReadInt32)
        IsInt64 == Contains(line, "private static long ReadInt64")
    IN IF Contains(line, "private static string ReadString")
           THEN Edited(GuardAfterLength(ls, i, ThrowNamed("String", LengthDetail)))
       ELSE IF Contains(line, "private static byte[] ReadBytes")
           THEN Edited(GuardAfterLength(ls, i, ThrowNamed("Bytes", LengthDetail)))
       ELSE IF IsGuid /\ (~guid.ok \/ guid.taken) THEN [ok |-> guid.ok, lines |-> guid.lines]
       ELSE IF IsBoolean /\ (~boolean.ok \/ boolean.taken)
           THEN [ok |-> boolean.ok, lines |-> boolean.lines]
       ELSE IF IsInt32 /\ (~int32.ok \/ int32.taken)
           THEN [ok |-> int32.ok, lines |-> int32.lines]
       ELSE IF IsInt64 /\ (~int64.ok \/ int64.taken)
           THEN [ok |-> int64.ok, lines |-> int64.lines]
       ELSE Edited(ls)

\* fix_bounds_v2.py, the per-method loop from index i
RECURSIVE PerMethodLoop(_, _)
PerMethodLoop(ls, i) ==
    IF i >= Len(ls) THEN Edited(ls)
    ELSE LET r == PerMethod(ls, i)
         IN IF r.ok THEN PerMethodLoop(r.lines, i + 1) ELSE Raised(ls)

\* fix_bounds_v2.py on the lines read
fix_bounds_v2(ls) ==
    PerMethodLoop(add_bounds_check(ls, SigReadString, check_code_ReadString), 0)

\* fix_duplicate.py: the line it removes and the one above it
DuplicateLine == 1415

\* fix_duplicate.py on the lines read; index k of the file is index k - base
\* of `lines`, and the lines above hold no "String truncated"
fix_duplicate(ls, first) ==
    LET upper == DuplicateLine - 1 - first
        lower == DuplicateLine - first
    IN IF first + Len(ls) > DuplicateLine /\ upper >= 0
           /\ Contains(At(ls, upper), "String truncated")
           /\ Contains(At(ls, lower), "String truncated")
           THEN Edited(Delete(ls, lower))
       ELSE Edited(ls)

(***************************************************************************)
(* The files the scripts are run on: Read methods of DatabaseExtensions.cs *)
(* in the shape the scripts look for, the opening brace on the line after  *)
(* the signature or at its end.                                            *)
(***************************************************************************)
Signatures ==
    <<SigReadInt32, SigReadInt64, SigReadBoolean, SigReadGuid, SigReadString, SigReadBytes>>

LengthPrefixed == {SigReadString, SigReadBytes}

Body(sig) ==
    IF sig \in LengthPrefixed
        THEN <<indent \o VarLength \o "\n", indent \o "return data.Slice(offset, length);\n">>
    ELSE <<indent \o "return data.Slice(offset);\n">>

Method(sig, sameLine) ==
    (IF sameLine THEN <<"        " \o sig \o " {\n">>
     ELSE <<"        " \o sig \o "\n", "        {\n">>)
    \o Body(sig) \o <<"        }\n">>

RECURSIVE Source(_, _, _)
Source(present, sameLine, k) ==
    IF k > Len(Signatures) THEN <<>>
    ELSE (IF k \in present THEN Method(Signatures[k], sameLine) ELSE <<>>)
             \o Source(present, sameLine, k + 1)

GenFiles ==
    { Source(present, sameLine, 1) :
        present \in (SUBSET (1..Len(Signatures))) \ {{}}, sameLine \in BOOLEAN }

\* the file fix_duplicate.py repairs: the throw line of the ReadString guard
\* twice, the second copy on line DuplicateLine
DuplicatedFile ==
    <<"        " \o SigReadString \o "\n", "        {\n", indent \o VarLength \o "\n",
      IfLength, ThrowNamed("String", LengthDetail), ThrowNamed("String", LengthDetail),
      indent \o "return data.Slice(offset, length);\n", "        }\n">>

DuplicatedBase == DuplicateLine - 5

InitPatch ==
    /\ row = <<>> /\ pc = "done"
    /\ buffer = <<>> /\ steps = <<>> /\ encErr = FALSE
    /\ data = <<>> /\ tamper = "" /\ offset = 0 /\ columnCount = 0
    /\ result = <<>> /\ name = <<>> /\ marker = -1
    /\ outcome = "none" /\ kind = "" /\ last = [op |-> "", start |-> 0]
    /\ copied = {}
    /\ \/ lines \in GenFiles /\ base = 0
       \/ lines = DuplicatedFile /\ base = DuplicatedBase
    /\ before = lines /\ ran = "" /\ runs = 0

\* one run of a script: read, edit, write back unless it raised
RunScript(script, r) ==
    /\ runs < MaxRuns
    /\ lines' = IF r.ok THEN readlines(writelines(r.lines)) ELSE lines
    /\ before' = lines
    /\ ran' = script
    /\ runs' = runs + 1
    /\ UNCHANGED base
    /\ UNCHANGED codec

RunFixBoundsV3 == RunScript("fix_bounds_v3", fix_bounds_v3(lines))

RunFixBoundsV2 == RunScript("fix_bounds_v2", fix_bounds_v2(lines))

RunFixDuplicate == RunScript("fix_duplicate", fix_duplicate(lines, base))

NextPatch ==
    \/ RunFixBoundsV3
    \/ RunFixBoundsV2
    \/ RunFixDuplicate

SpecPatch == InitPatch /\ [][NextPatch]_vars

\* the lines of a Read method: from its signature to the line before the
\* next signature, or to the end of the file
MethodStart(ls, sig) == Least({ i \in 1..Len(ls) : Contains(ls[i], sig) })
MethodEnd(ls, sig) ==
    LET later == { i \in (MethodStart(ls, sig) + 1)..Len(ls) :
                       Contains(ls[i], "private static") }
    IN IF later = {} THEN Len(ls) ELSE Least(later) - 1
HasMethod(ls, sig) == \E i \in 1..Len(ls) : Contains(ls[i], sig)
MethodText(ls, sig) == SubSeq(ls, MethodStart(ls, sig), MethodEnd(ls, sig))

\* the copies of the guard in a Read method
GuardCopies(ls, sig) ==
    Cardinality({ i \in MethodStart(ls, sig)..MethodEnd(ls, sig) :
                      \/ Contains(ls[i], "if (length < 0 || offset + length > data.Length)")
                      \/ /\ Contains(ls[i], "if (offset + ")
                         /\ Contains(ls[i], " > data.Length)") })

ReadMethods == { Signatures[k] : k \in 1..Len(Signatures) }

\* C12: patch idempotence.  A run of fix_bounds_v3.py or fix_bounds_v2.py on a
\* file in which a Read method already has its bounds check leaves that
\* method as it was, and no Read method ever holds two copies of the guard.
C12_PatchIdempotent ==
    \A sig \in ReadMethods :
        HasMethod(lines, sig) =>
            /\ GuardCopies(lines, sig) <= 1
            /\ (ran \in {"fix_bounds_v3", "fix_bounds_v2"} /\ GuardCopies(before, sig) >= 1)
                   => MethodText(lines, sig) = MethodText(before, sig)

\* decode is about to make a String/Bytes read whose 4-byte length field lies
\* within the buffer
LengthReadNext ==
    /\ pc = "name" \/ (pc = "value" /\ marker \in {String, Bytes})
    /\ Remaining >= 4

\* the mathematical sum offset + length exceeds data.Length
SumExceeds(length, off, dataLength) == length > dataLength - off

\* C13: the inserted guard.  With offset, length and data.Length signed 32-bit
\* integers and the addition wrapping, `length < 0 || offset + length >
\* data.Length` is true whenever 0 <= offset <= data.Length and length is
\* negative or the mathematical sum offset + length exceeds data.Length: no
\* such length passes the guard because the addition overflowed.
C13_GuardRejects ==
    LengthReadNext =>
        LET length == LittleEndianInt32(data, offset)
            off == offset + 4
        IN (off >= 0 /\ off <= Len(data)
                /\ (length < 0 \/ SumExceeds(length, off, Len(data))))
               => LengthGuard(length, off, Len(data))
====
